---- MODULE Spec2Model ----
(***************************************************************************)
(* Model of the Merkle engine of OpenZeppelin/merkle-tree.                 *)
(*                                                                         *)
(* Core (src/src/core.ts): makeMerkleTree, getProof, processProof,         *)
(* getMultiProof, processMultiProof, isValidMerkleTree.                    *)
(* Facade (src/src/merkletree.ts, src/unnamed/part_008 = simple variant,   *)
(* src/unnamed/part_021 = standard variant, src/src/simple.ts = the        *)
(* earlier simple variant whose load does not validate).                   *)
(*                                                                         *)
(* Digests.  keccak256 cannot be computed here; it is modelled as a free   *)
(* (collision-free) constructor over byte strings.  A node is a record     *)
(*   [len |-> number of bytes, id |-> content]                             *)
(* where the content of a hash output is the tag 0 followed by the         *)
(* encoding of the hashed byte string, and the content of a caller         *)
(* supplied digest is <<k>> with k >= 1.  Arrays are 0-based in the source *)
(* and 1-based here: At(a, i) reads a[i] of the source.                    *)
(***************************************************************************)
EXTENDS Integers, Sequences, FiniteSets, TLC

\* ------------------------------------------------------------------ bounds
NumIds == 2
MaxLeaves == 3
MaxIndices == 3
MaxFlags == 3
MaxQueue == 2
MaxOtherLeaves == 2

MaxBadIndices == 2

MaxNodes == 3

\* ------------------------------------------------------- program constants
DigestLen == 32

\* ------------------------------------------------------------ JS helpers
Undefined == [len |-> -1, id |-> <<>>]

At(a, i) == IF i >= 0 /\ i < Len(a) THEN a[i + 1] ELSE Undefined

Min(a, b) == IF a <= b THEN a ELSE b

Ok(v) == [ok |-> TRUE, val |-> v]

Err(kind, msg) == [ok |-> FALSE, kind |-> kind, msg |-> msg]

throwError(msg) == Err("Error", msg)

\* ------------------------------------------------------------- digests
D(k) == [len |-> DigestLen, id |-> <<k>>]

\* the byte string of a node, as fed to keccak256 / concat
Enc(x) == <<x.len, Len(x.id)>> \o x.id

keccak256(bytes) == [len |-> DigestLen, id |-> <<0>> \o bytes]

RECURSIVE LexCmp(_, _, _)
LexCmp(a, b, i) ==
  IF i > Min(Len(a), Len(b)) THEN Len(a) - Len(b)
  ELSE IF a[i] # b[i] THEN a[i] - b[i]
  ELSE LexCmp(a, b, i + 1)

compareBytes(a, b) ==
  LET c == LexCmp(a.id, b.id, 1) IN IF c # 0 THEN c ELSE a.len - b.len

\* [a, b].sort(compareBytes)
\* variant: the pair is left as given
SortPairAsGiven(a, b) == <<a, b>>

SortPair(a, b) == IF compareBytes(a, b) <= 0 THEN <<a, b>> ELSE <<b, a>>

\* variant: hashes the smaller operand only
hashPairOfFirst(a, b) == LET s == SortPair(a, b) IN keccak256(Enc(s[1]))

hashPair(a, b) ==
  LET s == SortPair(a, b) IN keccak256(Enc(s[1]) \o Enc(s[2]))

reverseNodeHash(a, b) ==
  LET s == SortPair(a, b) IN keccak256(Enc(s[2]) \o Enc(s[1]))

\* a node hash that does not sort its operands
orderedNodeHash(a, b) == keccak256(Enc(a) \o Enc(b))

NodeHash(nh, a, b) ==
  IF nh = "custom" THEN reverseNodeHash(a, b)
  ELSE IF nh = "ordered" THEN orderedNodeHash(a, b)
  ELSE hashPair(a, b)

\* ------------------------------------------------------------ tree indices
leftChildIndex(i) == 2 * i + 1

rightChildIndex(i) == 2 * i + 2

\* parentIndex and siblingIndex throw 'Root has no parent' / 'Root has no
\* siblings' at i = 0; every caller holds i > 0 (getProof's loop condition,
\* getMultiProof's stack[0] > 0), so that branch is never taken.
\* variant: the division is taken on i, not on i - 1
parentIndexOfHalf(i) == i \div 2

parentIndex(i) == (i - 1) \div 2

\* variant: the right-hand neighbour, whatever the parity
siblingIndexRight(i) == i + 1

siblingIndex(i) == IF i % 2 = 1 THEN i + 1 ELSE i - 1

isTreeNode(tree, i) == i >= 0 /\ i < Len(tree)

isInternalNode(tree, i) == isTreeNode(tree, leftChildIndex(i))

\* variant: any node of the tree
isLeafNodeAnyNode(tree, i) == isTreeNode(tree, i)

isLeafNode(tree, i) == isTreeNode(tree, i) /\ ~isInternalNode(tree, i)

\* variant: any byte string passes for a node
isValidMerkleNodeAnyLength(node) == TRUE

isValidMerkleNode(node) == node.len = DigestLen

NodeErr == throwError("Merkle tree nodes must be Uint8Array of length 32")

\* ------------------------------------------------------------ makeMerkleTree
RECURSIVE FillTree(_, _, _)
FillTree(tree, i, nh) ==
  IF i < 0 THEN tree
  ELSE FillTree([tree EXCEPT ![i + 1] =
                   NodeHash(nh, At(tree, leftChildIndex(i)), At(tree, rightChildIndex(i)))],
                i - 1, nh)

\* variant: the leaves fill the tail of the array in their own order
makeMerkleTreeInOrder(leaves, nh) ==
  IF Len(leaves) = 0 THEN Err("Error", "Expected non-zero number of leaves")
  ELSE IF \E k \in 1..Len(leaves) : ~isValidMerkleNode(leaves[k]) THEN NodeErr
  ELSE LET size == 2 * Len(leaves) - 1
           placed == [j \in 1..size |->
                        IF j - 1 >= size - Len(leaves)
                        THEN leaves[j - (size - Len(leaves))]
                        ELSE Undefined]
       IN Ok(FillTree(placed, size - 1 - Len(leaves), nh))

makeMerkleTree(leaves, nh) ==
  IF Len(leaves) = 0 THEN Err("Error", "Expected non-zero number of leaves")
  ELSE IF \E k \in 1..Len(leaves) : ~isValidMerkleNode(leaves[k]) THEN NodeErr
  ELSE LET size == 2 * Len(leaves) - 1
           placed == [j \in 1..size |->
                        IF j - 1 >= size - Len(leaves)
                        THEN leaves[(size - 1 - (j - 1)) + 1]
                        ELSE Undefined]
       IN Ok(FillTree(placed, size - 1 - Len(leaves), nh))

\* ------------------------------------------------------------ getProof
RECURSIVE ProofWalk(_, _)
ProofWalk(tree, j) ==
  IF j > 0 THEN <<At(tree, siblingIndex(j))>> \o ProofWalk(tree, parentIndex(j))
  ELSE <<>>

\* variant: the walk starts with the node itself
getProofWithSelf(tree, index) ==
  IF ~isLeafNode(tree, index) THEN throwError("Index is not a leaf")
  ELSE Ok(<<At(tree, index)>> \o ProofWalk(tree, index))

getProof(tree, index) ==
  IF ~isLeafNode(tree, index) THEN throwError("Index is not a leaf")
  ELSE Ok(ProofWalk(tree, index))

\* ------------------------------------------------------------ processProof
RECURSIVE ProofFold(_, _, _, _)
ProofFold(result, proof, k, nh) ==
  IF k > Len(proof) THEN Ok(result)
  ELSE IF ~isValidMerkleNode(proof[k]) THEN NodeErr
  ELSE ProofFold(NodeHash(nh, proof[k], result), proof, k + 1, nh)

processProof(leaf, proof, nh) ==
  IF ~isValidMerkleNode(leaf) THEN NodeErr
  ELSE ProofFold(leaf, proof, 1, nh)

\* ------------------------------------------------------------ getMultiProof
\* indices.sort((a, b) => b - a): stable, descending
RECURSIVE InsertDesc(_, _)
InsertDesc(sorted, x) ==
  IF sorted = <<>> THEN <<x>>
  ELSE IF Head(sorted) >= x THEN <<Head(sorted)>> \o InsertDesc(Tail(sorted), x)
  ELSE <<x>> \o sorted

RECURSIVE SortDesc(_)
SortDesc(s) ==
  IF s = <<>> THEN <<>>
  ELSE InsertDesc(SortDesc(SubSeq(s, 1, Len(s) - 1)), s[Len(s)])

\* the loop condition of getMultiProof: stack.length > 0 && stack[0] > 0
\* variant: the loop stops at a child of the root
MultiProofContinuesAboveOne(st) == Len(st.stack) > 0 /\ st.stack[1] > 1

MultiProofContinues(st) == Len(st.stack) > 0 /\ st.stack[1] > 0

\* one iteration of the loop of getMultiProof
\* variant: never pairs two queued siblings
MultiProofStepNoPairing(tree, st) ==
  LET j == Head(st.stack)
      rest == Tail(st.stack)
  IN [stack |-> Append(rest, parentIndex(j)),
      proof |-> Append(st.proof, At(tree, siblingIndex(j))),
      proofFlags |-> Append(st.proofFlags, FALSE)]

MultiProofStep(tree, st) ==
  LET j == Head(st.stack)
      rest == Tail(st.stack)
      s == siblingIndex(j)
      p == parentIndex(j)
  IN IF Len(rest) > 0 /\ s = Head(rest)
     THEN [stack |-> Append(Tail(rest), p),
           proof |-> st.proof,
           proofFlags |-> Append(st.proofFlags, TRUE)]
     ELSE [stack |-> Append(rest, p),
           proof |-> Append(st.proof, At(tree, s)),
           proofFlags |-> Append(st.proofFlags, FALSE)]

RECURSIVE MultiProofLoop(_, _)
MultiProofLoop(tree, st) ==
  IF MultiProofContinues(st) THEN MultiProofLoop(tree, MultiProofStep(tree, st)) ELSE st

\* variant: the indices are sorted on a copy, the leaves follow the request
getMultiProofLeavesAsRequested(tree, indices) ==
  IF Len(indices) = 0
  THEN Ok([leaves |-> <<>>, proof |-> SubSeq(tree, 1, Min(1, Len(tree))), proofFlags |-> <<>>])
  ELSE IF \E k \in 1..Len(indices) : ~isLeafNode(tree, indices[k])
  THEN throwError("Index is not a leaf")
  ELSE LET sorted == SortDesc(indices)
           st == MultiProofLoop(tree, [stack |-> sorted, proof |-> <<>>, proofFlags |-> <<>>])
       IN Ok([leaves |-> [k \in 1..Len(indices) |-> At(tree, indices[k])],
              proof |-> st.proof,
              proofFlags |-> st.proofFlags])

getMultiProof(tree, indices) ==
  IF Len(indices) = 0
  THEN Ok([leaves |-> <<>>, proof |-> SubSeq(tree, 1, Min(1, Len(tree))), proofFlags |-> <<>>])
  ELSE IF \E k \in 1..Len(indices) : ~isLeafNode(tree, indices[k])
  THEN throwError("Index is not a leaf")
  ELSE LET sorted == SortDesc(indices)
           st == MultiProofLoop(tree, [stack |-> sorted, proof |-> <<>>, proofFlags |-> <<>>])
       IN Ok([leaves |-> [k \in 1..Len(sorted) |-> At(tree, sorted[k])],
              proof |-> st.proof,
              proofFlags |-> st.proofFlags])

\* ------------------------------------------------------------ processMultiProof
CountFalse(flags) == Cardinality({k \in 1..Len(flags) : ~flags[k]})

\* stack.shift(): the head, or undefined when the queue is empty
Shift(q) == IF Len(q) > 0 THEN Head(q) ELSE Undefined

\* variant: shift() leaves the element in the queue
ShiftedKeepsHead(q) == q

Shifted(q) == IF Len(q) > 0 THEN Tail(q) ELSE q

\* the loop of processMultiProof; a and b are read with the non-null
\* assertion `!`, which checks nothing at run time: an undefined operand
\* reaches hashPair, whose concatBytes throws on it.
RECURSIVE MultiFold(_, _, _, _, _)
MultiFold(stack, proof, flags, k, nh) ==
  IF k > Len(flags)
  THEN Ok(IF Len(stack) > 0 THEN stack[Len(stack)] ELSE Shift(proof))
  ELSE LET a == Shift(stack)
           s1 == Shifted(stack)
           b == IF flags[k] THEN Shift(s1) ELSE Shift(proof)
           s2 == IF flags[k] THEN Shifted(s1) ELSE s1
           p2 == IF flags[k] THEN proof ELSE Shifted(proof)
       IN IF a = Undefined \/ b = Undefined
          THEN Err("Error", "Uint8Array list expected")
          ELSE MultiFold(Append(s2, NodeHash(nh, a, b)), p2, flags, k + 1, nh)

\* variant: the result is popped from the stack only, never taken from the proof
processMultiProofFromStack(multiproof, nh) ==
  IF \E k \in 1..Len(multiproof.leaves) : ~isValidMerkleNode(multiproof.leaves[k]) THEN NodeErr
  ELSE IF \E k \in 1..Len(multiproof.proof) : ~isValidMerkleNode(multiproof.proof[k]) THEN NodeErr
  ELSE IF Len(multiproof.proof) < CountFalse(multiproof.proofFlags)
  THEN Err("Error", "Invalid multiproof format")
  ELSE IF Len(multiproof.leaves) + Len(multiproof.proof) # Len(multiproof.proofFlags) + 1
  THEN Err("Error", "Provided leaves and multiproof are not compatible")
  ELSE IF Len(multiproof.leaves) = 0 THEN Ok(Undefined)
  ELSE MultiFold(multiproof.leaves, multiproof.proof, multiproof.proofFlags, 1, nh)

processMultiProof(multiproof, nh) ==
  IF \E k \in 1..Len(multiproof.leaves) : ~isValidMerkleNode(multiproof.leaves[k]) THEN NodeErr
  ELSE IF \E k \in 1..Len(multiproof.proof) : ~isValidMerkleNode(multiproof.proof[k]) THEN NodeErr
  ELSE IF Len(multiproof.proof) < CountFalse(multiproof.proofFlags)
  THEN Err("Error", "Invalid multiproof format")
  ELSE IF Len(multiproof.leaves) + Len(multiproof.proof) # Len(multiproof.proofFlags) + 1
  THEN Err("Error", "Provided leaves and multiproof are not compatible")
  ELSE MultiFold(multiproof.leaves, multiproof.proof, multiproof.proofFlags, 1, nh)

\* ------------------------------------------------------------ isValidMerkleTree
RECURSIVE ValidFrom(_, _, _)
ValidFrom(tree, i, nh) ==
  IF i >= Len(tree) THEN Len(tree) > 0
  ELSE IF ~isValidMerkleNode(At(tree, i)) THEN FALSE
  ELSE IF rightChildIndex(i) >= Len(tree)
  THEN IF leftChildIndex(i) < Len(tree) THEN FALSE ELSE ValidFrom(tree, i + 1, nh)
  ELSE IF At(tree, i) # NodeHash(nh, At(tree, leftChildIndex(i)), At(tree, rightChildIndex(i)))
  THEN FALSE
  ELSE ValidFrom(tree, i + 1, nh)

\* variant: the root is not compared with its children
isValidMerkleTreeBelowRoot(tree, nh) == ValidFrom(tree, 1, nh)

isValidMerkleTree(tree, nh) == ValidFrom(tree, 0, nh)

\* ====================================================================
\* Facade: values, leaf hashes, MerkleTreeImpl and its two variants
\* ====================================================================
\* A simple-variant value is BytesLike: a Uint8Array or a hex string of the
\* same 32 bytes.  A standard-variant value is a tuple; id is its encoding.
HexValue(k) == [repr |-> "hex", len |-> DigestLen, id |-> <<k>>]

BytesValue(k) == [repr |-> "bytes", len |-> DigestLen, id |-> <<k>>]

TupleValue(k) == [repr |-> "tuple", len |-> 1, id |-> <<k>>]

toHex(value) == [value EXCEPT !.repr = "hex"]

\* the digest a BytesLike denotes
Node(value) == [len |-> value.len, id |-> value.id]

compare(a, b) ==
  LET c == compareBytes(a, b) IN IF c > 0 THEN 1 ELSE IF c < 0 THEN -1 ELSE 0

\* keccak256(concat([a, b].sort(compare)))
standardNodeHash(a, b) ==
  LET s == IF compare(a, b) <= 0 THEN <<a, b>> ELSE <<b, a>>
  IN keccak256(Enc(s[1]) \o Enc(s[2]))

\* toHex(encode(['bytes32'], [value])): the 32 bytes themselves
formatLeaf(value) == Node(value)

standardLeafHash(value) == keccak256(Enc(keccak256(value.id)))

leafHashOf(kind, value) ==
  IF kind = "simple" THEN formatLeaf(value) ELSE standardLeafHash(value)

\* hashedValues.sort((a, b) => compare(a.hash, b.hash)): stable, ascending
RECURSIVE InsertByHash(_, _)
InsertByHash(sorted, x) ==
  IF sorted = <<>> THEN <<x>>
  ELSE IF compare(Head(sorted).hash, x.hash) <= 0
  THEN <<Head(sorted)>> \o InsertByHash(Tail(sorted), x)
  ELSE <<x>> \o sorted

RECURSIVE SortByHash(_)
SortByHash(s) ==
  IF s = <<>> THEN <<>>
  ELSE InsertByHash(SortByHash(SubSeq(s, 1, Len(s) - 1)), s[Len(s)])

\* MerkleTreeImpl.prepare followed by the constructor
\* variant: the hashed values are never sorted
prepareInInputOrder(kind, values, sortLeaves, nodeHash) ==
  LET hashedValues == [k \in 1..Len(values) |->
                         [value |-> values[k], valueIndex |-> k - 1,
                          hash |-> leafHashOf(kind, values[k])]]
      made == makeMerkleTree([k \in 1..Len(values) |-> hashedValues[k].hash], nodeHash)
  IN IF ~made.ok THEN made
     ELSE Ok([kind |-> kind,
              tree |-> made.val,
              values |-> [k \in 1..Len(values) |->
                            [value |-> values[k], treeIndex |-> Len(made.val) - (k - 1) - 1]],
              nodeHash |-> nodeHash,
              leafEncoding |-> IF kind = "standard" THEN "string" ELSE "absent"])

prepare(kind, values, sortLeaves, nodeHash) ==
  LET hashed == [k \in 1..Len(values) |->
                   [value |-> values[k], valueIndex |-> k - 1,
                    hash |-> leafHashOf(kind, values[k])]]
      hashedValues == IF sortLeaves THEN SortByHash(hashed) ELSE hashed
      made == makeMerkleTree([k \in 1..Len(values) |-> hashedValues[k].hash], nodeHash)
  IN IF ~made.ok THEN made
     ELSE LET leafIndex(v) ==
                CHOOSE l \in 0..(Len(values) - 1) : hashedValues[l + 1].valueIndex = v
          IN Ok([kind |-> kind,
                 tree |-> made.val,
                 values |-> [k \in 1..Len(values) |->
                               [value |-> values[k],
                                treeIndex |-> Len(made.val) - leafIndex(k - 1) - 1]],
                 nodeHash |-> nodeHash,
                 leafEncoding |-> IF kind = "standard" THEN "string" ELSE "absent"])

root(obj) == At(obj.tree, 0)

length(obj) == Len(obj.values)

at(obj, index) == obj.values[index + 1].value

InBounds(obj, index) == index >= 0 /\ index < Len(obj.values)

\* hashLookup[hash]: Object.fromEntries keeps the last entry of a key
\* variant: the first entry of a key is kept
hashLookupFirst(obj, hash) ==
  LET hits == {i \in 0..(Len(obj.values) - 1) : At(obj.tree, obj.values[i + 1].treeIndex) = hash}
  IN IF hits = {} THEN -1 ELSE CHOOSE i \in hits : \A j \in hits : i <= j

hashLookup(obj, hash) ==
  LET hits == {i \in 0..(Len(obj.values) - 1) : At(obj.tree, obj.values[i + 1].treeIndex) = hash}
  IN IF hits = {} THEN -1 ELSE CHOOSE i \in hits : \A j \in hits : j <= i

\* variant: only the bounds of the index are checked
validateValueAtBoundsOnly(obj, index) ==
  IF ~InBounds(obj, index) THEN Err("InvalidArgumentError", "Index out of bounds")
  ELSE Ok(TRUE)

validateValueAt(obj, index) ==
  IF ~InBounds(obj, index) THEN Err("InvalidArgumentError", "Index out of bounds")
  ELSE IF At(obj.tree, obj.values[index + 1].treeIndex) # leafHashOf(obj.kind, at(obj, index))
  THEN Err("InvariantError", "Merkle tree does not contain the expected value")
  ELSE Ok(TRUE)

\* the first failure of validateValueAt over a list of indices, or Ok
RECURSIVE ValidateAll(_, _, _)
ValidateAll(obj, indices, k) ==
  IF k > Len(indices) THEN Ok(TRUE)
  ELSE LET v == validateValueAt(obj, indices[k])
       IN IF ~v.ok THEN v ELSE ValidateAll(obj, indices, k + 1)

AllIndices(obj) == [k \in 1..Len(obj.values) |-> k - 1]

\* variant: the node array is not looked at
validateValuesOnly(obj) == ValidateAll(obj, AllIndices(obj), 1)

validate(obj) ==
  LET v == ValidateAll(obj, AllIndices(obj), 1)
  IN IF ~v.ok THEN v
     ELSE IF ~isValidMerkleTree(obj.tree, obj.nodeHash)
     THEN Err("InvariantError", "Merkle tree is invalid")
     ELSE Ok(TRUE)

\* _verify and _verifyMultiProof: this.root === process...(…, this.nodeHash)
VerifyAgainst(rootNode, leafNode, proof, nodeHash) ==
  LET r == processProof(leafNode, proof, nodeHash)
  IN IF r.ok THEN Ok(r.val = rootNode) ELSE r

VerifyMultiAgainst(rootNode, multiproof, nodeHash) ==
  LET r == processMultiProof(multiproof, nodeHash)
  IN IF r.ok THEN Ok(r.val = rootNode) ELSE r

\* MerkleTreeImpl.getProof(leaf: number)
Tree_getProof(obj, valueIndex) ==
  LET v == validateValueAt(obj, valueIndex)
  IN IF ~v.ok THEN v
     ELSE LET treeIndex == obj.values[valueIndex + 1].treeIndex
              proof == getProof(obj.tree, treeIndex)
          IN IF ~proof.ok THEN proof
             ELSE LET ver == VerifyAgainst(root(obj), At(obj.tree, treeIndex), proof.val, obj.nodeHash)
                  IN IF ~ver.ok THEN ver
                     ELSE IF ~ver.val THEN Err("InvariantError", "Unable to prove value")
                     ELSE proof

\* MerkleTreeImpl.verify(leaf: number, proof)
\* variant: the proof is processed with the default node hash
Tree_verifyWithDefaultHash(obj, leaf, proof) ==
  IF ~InBounds(obj, leaf) THEN Err("InvalidArgumentError", "Index out of bounds")
  ELSE VerifyAgainst(root(obj), leafHashOf(obj.kind, at(obj, leaf)), proof, "none")

Tree_verify(obj, leaf, proof) ==
  IF ~InBounds(obj, leaf) THEN Err("InvalidArgumentError", "Index out of bounds")
  ELSE VerifyAgainst(root(obj), leafHashOf(obj.kind, at(obj, leaf)), proof, obj.nodeHash)

\* SimpleMerkleTree.verify / StandardMerkleTree.verify (static)
Static_verify(kind, rootNode, leaf, proof, nodeHash) ==
  VerifyAgainst(rootNode, leafHashOf(kind, leaf), proof, nodeHash)

\* MerkleTreeImpl.getMultiProof(leaves: number[])
Tree_getMultiProof(obj, valueIndices) ==
  LET v == ValidateAll(obj, valueIndices, 1)
  IN IF ~v.ok THEN v
     ELSE LET indices == [k \in 1..Len(valueIndices) |-> obj.values[valueIndices[k] + 1].treeIndex]
              proof == getMultiProof(obj.tree, indices)
          IN IF ~proof.ok THEN proof
             ELSE LET ver == VerifyMultiAgainst(root(obj), proof.val, obj.nodeHash)
                  IN IF ~ver.ok THEN ver
                     ELSE IF ~ver.val THEN Err("InvariantError", "Unable to prove values")
                     ELSE IF \E k \in 1..Len(proof.val.leaves) : hashLookup(obj, proof.val.leaves[k]) < 0
                     THEN Err("TypeError", "Cannot read properties of undefined")
                     ELSE Ok([leaves |-> [k \in 1..Len(proof.val.leaves) |->
                                            at(obj, hashLookup(obj, proof.val.leaves[k]))],
                              proof |-> proof.val.proof,
                              proofFlags |-> proof.val.proofFlags])

\* MerkleTreeImpl.leafLookup
leafLookup(obj, leaf) ==
  LET lookup == hashLookup(obj, leafHashOf(obj.kind, leaf))
  IN IF lookup < 0 THEN Err("InvalidArgumentError", "Leaf is not in tree") ELSE Ok(lookup)

\* MerkleTreeImpl.getProof(leaf: T)
Tree_getProofOfValue(obj, leaf) ==
  LET lookup == leafLookup(obj, leaf)
  IN IF ~lookup.ok THEN lookup ELSE Tree_getProof(obj, lookup.val)

\* MerkleTreeImpl.getMultiProof(leaves: T[])
Tree_getMultiProofOfValues(obj, leaves) ==
  IF \E k \in 1..Len(leaves) : ~leafLookup(obj, leaves[k]).ok
  THEN Err("InvalidArgumentError", "Leaf is not in tree")
  ELSE Tree_getMultiProof(obj, [k \in 1..Len(leaves) |-> leafLookup(obj, leaves[k]).val])

\* MerkleTreeImpl.verifyMultiProof, the leaves given as values
Tree_verifyMultiProof(obj, multiproof) ==
  VerifyMultiAgainst(root(obj),
                     [leaves |-> [k \in 1..Len(multiproof.leaves) |->
                                    leafHashOf(obj.kind, multiproof.leaves[k])],
                      proof |-> multiproof.proof,
                      proofFlags |-> multiproof.proofFlags],
                     obj.nodeHash)

\* SimpleMerkleTree.verifyMultiProof passes the leaves as they are,
\* StandardMerkleTree.verifyMultiProof hashes them first (static)
Static_verifyMultiProof(kind, rootNode, multiproof, nodeHash) ==
  VerifyMultiAgainst(rootNode,
                     [leaves |-> [k \in 1..Len(multiproof.leaves) |->
                                    IF kind = "simple" THEN Node(multiproof.leaves[k])
                                    ELSE standardLeafHash(multiproof.leaves[k])],
                      proof |-> multiproof.proof,
                      proofFlags |-> multiproof.proofFlags],
                     nodeHash)

\* ------------------------------------------------------------ dump / load
\* variant: the simple dump never carries the hash tag
dumpUntagged(obj) ==
  IF obj.kind = "simple"
  THEN [format |-> "simple-v1",
        tree |-> obj.tree,
        values |-> [k \in 1..Len(obj.values) |->
                      [value |-> toHex(obj.values[k].value), treeIndex |-> obj.values[k].treeIndex]],
        hash |-> "absent",
        leafEncoding |-> "absent"]
  ELSE [format |-> "standard-v1",
        tree |-> obj.tree,
        values |-> obj.values,
        hash |-> "absent",
        leafEncoding |-> obj.leafEncoding]

dump(obj) ==
  IF obj.kind = "simple"
  THEN [format |-> "simple-v1",
        tree |-> obj.tree,
        values |-> [k \in 1..Len(obj.values) |->
                      [value |-> toHex(obj.values[k].value), treeIndex |-> obj.values[k].treeIndex]],
        hash |-> IF obj.nodeHash = "custom" THEN "custom" ELSE "absent",
        leafEncoding |-> "absent"]
  ELSE [format |-> "standard-v1",
        tree |-> obj.tree,
        values |-> obj.values,
        hash |-> "absent",
        leafEncoding |-> obj.leafEncoding]

UnknownFormat(data) == "Unknown format '" \o data.format \o "'"

\* variant: the node hash given to load is not passed on
LoadedWithDefaultHash(kind, data, nodeHash) ==
  [kind |-> kind, tree |-> data.tree, values |-> data.values,
   nodeHash |-> "none", leafEncoding |-> data.leafEncoding]

Loaded(kind, data, nodeHash) ==
  [kind |-> kind, tree |-> data.tree, values |-> data.values,
   nodeHash |-> nodeHash, leafEncoding |-> data.leafEncoding]

\* SimpleMerkleTree.load(data, nodeHash?)
\* variant: the hash tag is looked at before the format
Simple_loadTagFirst(data, nodeHash) ==
  IF (nodeHash = "none") = (data.hash = "custom")
  THEN Err("InvalidArgumentError",
           IF nodeHash # "none" THEN "Data does not expect a custom node hashing function"
           ELSE "Data expects a custom node hashing function")
  ELSE IF data.format # "simple-v1" THEN Err("InvalidArgumentError", UnknownFormat(data))
  ELSE LET t == Loaded("simple", data, nodeHash)
           v == validate(t)
       IN IF ~v.ok THEN v ELSE Ok(t)

Simple_load(data, nodeHash) ==
  IF data.format # "simple-v1" THEN Err("InvalidArgumentError", UnknownFormat(data))
  ELSE IF (nodeHash = "none") = (data.hash = "custom")
  THEN Err("InvalidArgumentError",
           IF nodeHash # "none" THEN "Data does not expect a custom node hashing function"
           ELSE "Data expects a custom node hashing function")
  ELSE LET t == Loaded("simple", data, nodeHash)
           v == validate(t)
       IN IF ~v.ok THEN v ELSE Ok(t)

\* StandardMerkleTree.load(data)
Standard_load(data) ==
  IF data.format # "standard-v1" THEN Err("InvalidArgumentError", UnknownFormat(data))
  ELSE IF data.leafEncoding = "absent" THEN Err("InvalidArgumentError", "Expected leaf encoding")
  ELSE LET t == Loaded("standard", data, "none")
           v == validate(t)
       IN IF ~v.ok THEN v ELSE Ok(t)

\* SimpleMerkleTree.load of src/src/simple.ts: no validation
SimpleLegacy_load(data) ==
  IF data.format # "simple-v1" THEN throwError(UnknownFormat(data))
  ELSE Ok([kind |-> "simple",
           tree |-> data.tree,
           values |-> [k \in 1..Len(data.values) |->
                         [value |-> toHex(data.values[k].value),
                          treeIndex |-> data.values[k].treeIndex]],
           nodeHash |-> "none",
           leafEncoding |-> "absent"])

\* StandardMerkleTree.load of src/src/standard.ts: no validation
StandardLegacy_load(data) ==
  IF data.format # "standard-v1" THEN throwError(UnknownFormat(data))
  ELSE IF data.leafEncoding = "absent" THEN throwError("Expected leaf encoding")
  ELSE Ok(Loaded("standard", data, "none"))

\* ====================================================================
\* State.  A client drives the library: pc is its position, tree the node
\* array it got from makeMerkleTree, T the facade object it built, U the
\* object it loaded from a dump, res the outcome of its last call.
\* ====================================================================
VARIABLES pc, tree, T, U, res

vars == <<pc, tree, T, U, res>>

NoTree == [kind |-> "none"]

NoRes == [op |-> "none"]

SeqsUpTo(S, n) == UNION {[1..k -> S] : k \in 0..n}

\* a node that is not 32 bytes long, such as '0x00'
Short == [len |-> 1, id |-> <<1>>]

Atoms == {D(k) : k \in 1..NumIds}

CoreLeaf == Atoms \cup {Short}

IsDistinct(s) == \A i, j \in 1..Len(s) : i # j => s[i] # s[j]

\* the positions of the leaves in a node array of the given size
LeafPositions(size) == {i \in 0..(size - 1) : 2 * i + 1 >= size}

\* index lists a caller passes: duplicate-free lists of good indices in any
\* order, and short lists of anything
IndexLists(good, any) ==
  {s \in SeqsUpTo(good, MaxIndices) : IsDistinct(s)} \cup SeqsUpTo(any, MaxBadIndices)

\* ------------------------------------------------------------ core session
InitCore ==
  /\ pc = "start"
  /\ tree = <<>>
  /\ T = NoTree
  /\ U = NoTree
  /\ res = NoRes

MakeMerkleTree ==
  /\ pc = "start"
  /\ \E leaves \in SeqsUpTo(CoreLeaf, MaxLeaves) :
       LET out == makeMerkleTree(leaves, "none")
       IN /\ res' = [op |-> "makeMerkleTree", leaves |-> leaves, out |-> out]
          /\ tree' = IF out.ok THEN out.val ELSE <<>>
          /\ pc' = IF out.ok THEN "tree" ELSE "done"
  /\ UNCHANGED <<T, U>>

GetProof ==
  /\ pc = "tree"
  /\ \E index \in -1..Len(tree) :
       LET out == getProof(tree, index)
       IN /\ res' = [op |-> "getProof", index |-> index, out |-> out]
          /\ pc' = IF out.ok THEN "proof" ELSE "done"
  /\ UNCHANGED <<tree, T, U>>

ProcessProof ==
  /\ pc = "proof"
  /\ res' = [op |-> "processProof", index |-> res.index, proof |-> res.out.val,
             out |-> processProof(At(tree, res.index), res.out.val, "none")]
  /\ pc' = "done"
  /\ UNCHANGED <<tree, T, U>>

GetMultiProof ==
  /\ pc = "tree"
  /\ \E indices \in IndexLists(LeafPositions(Len(tree)), -1..Len(tree)) :
       LET out == getMultiProof(tree, indices)
       IN /\ res' = [op |-> "getMultiProof", indices |-> indices, out |-> out]
          /\ pc' = IF out.ok THEN "multiproof" ELSE "done"
  /\ UNCHANGED <<tree, T, U>>

ProcessMultiProof ==
  /\ pc = "multiproof"
  /\ res' = [op |-> "processMultiProof", indices |-> res.indices, multiproof |-> res.out.val,
             out |-> processMultiProof(res.out.val, "none")]
  /\ pc' = "done"
  /\ UNCHANGED <<tree, T, U>>

\* processMultiProof called on a multiproof the caller made up
AnyMultiProof ==
  [leaves : SeqsUpTo({D(1), Short}, MaxQueue),
   proof : SeqsUpTo({D(2), Short}, MaxQueue),
   proofFlags : SeqsUpTo(BOOLEAN, MaxFlags)]

ProcessGivenMultiProof ==
  /\ pc = "start"
  /\ \E mp \in AnyMultiProof :
       res' = [op |-> "processGivenMultiProof", multiproof |-> mp,
               out |-> processMultiProof(mp, "none")]
  /\ pc' = "done"
  /\ UNCHANGED <<tree, T, U>>

\* isValidMerkleTree called on an array the caller made up
ArrayNodes == Atoms \cup {Short} \cup {hashPair(a, b) : a, b \in Atoms}

IsValidMerkleTree ==
  /\ pc = "start"
  /\ \E t \in SeqsUpTo(ArrayNodes, MaxNodes) :
       res' = [op |-> "isValidMerkleTree", tree |-> t, out |-> isValidMerkleTree(t, "none")]
  /\ pc' = "done"
  /\ UNCHANGED <<tree, T, U>>

\* the array makeMerkleTree returned, as it is, cut short or with one node
\* replaced
TamperedTree(t) ==
  {t}
  \cup {SubSeq(t, 1, Len(t) - 1)}
  \cup {[t EXCEPT ![i] = x] : i \in 1..Len(t), x \in {D(1), Short}}

\* isValidMerkleTree called on what makeMerkleTree returned
IsValidMadeTree ==
  /\ pc = "tree"
  /\ \E t \in TamperedTree(tree) :
       res' = [op |-> "isValidMerkleTree", tree |-> t, out |-> isValidMerkleTree(t, "none")]
  /\ pc' = "done"
  /\ UNCHANGED <<tree, T, U>>

NextCore ==
  \/ IsValidMerkleTree
  \/ IsValidMadeTree
  \/ MakeMerkleTree
  \/ GetProof
  \/ ProcessProof
  \/ GetMultiProof
  \/ ProcessMultiProof
  \/ ProcessGivenMultiProof

SpecCore == InitCore /\ [][NextCore]_vars

\* ---------------------------------------------------------- facade session
SimpleValues == {HexValue(k) : k \in 1..NumIds} \cup {BytesValue(1)}

StandardValues == {TupleValue(k) : k \in 1..NumIds}

OfArgs ==
  [kind : {"simple"}, values : SeqsUpTo(SimpleValues, MaxLeaves),
   sortLeaves : BOOLEAN, nodeHash : {"none", "custom"}]
  \cup
  [kind : {"standard"}, values : SeqsUpTo(StandardValues, MaxLeaves),
   sortLeaves : BOOLEAN, nodeHash : {"none"}]

Init ==
  /\ pc = "start"
  /\ tree = <<>>
  /\ T = NoTree
  /\ U = NoTree
  /\ res = NoRes

\* SimpleMerkleTree.of / StandardMerkleTree.of
Of ==
  /\ pc = "start"
  /\ \E args \in OfArgs :
       LET out == prepare(args.kind, args.values, args.sortLeaves, args.nodeHash)
       IN /\ res' = [op |-> "of", args |-> args, out |-> out]
          /\ T' = IF out.ok THEN out.val ELSE NoTree
          /\ pc' = IF out.ok THEN "built" ELSE "done"
  /\ UNCHANGED <<tree, U>>

TGetProof ==
  /\ pc = "built"
  /\ \E index \in -1..length(T) :
       LET out == Tree_getProof(T, index)
       IN /\ res' = [op |-> "T.getProof", index |-> index, out |-> out]
          /\ pc' = IF out.ok THEN "proved" ELSE "done"
  /\ UNCHANGED <<tree, T, U>>

\* T.verify(i, proof) and the static verify(T.root, T.at(i), proof, nodeHash)
TVerify ==
  /\ pc = "proved"
  /\ res' = [op |-> "T.verify", index |-> res.index, proof |-> res.out.val,
             instance |-> Tree_verify(T, res.index, res.out.val),
             static |-> Static_verify(T.kind, root(T), at(T, res.index), res.out.val, T.nodeHash)]
  /\ pc' = "done"
  /\ UNCHANGED <<tree, T, U>>

TGetMultiProof ==
  /\ pc = "built"
  /\ \E indices \in IndexLists(0..(length(T) - 1), 0..length(T)) :
       LET out == Tree_getMultiProof(T, indices)
       IN /\ res' = [op |-> "T.getMultiProof", indices |-> indices, out |-> out]
          /\ pc' = IF out.ok THEN "multiproved" ELSE "done"
  /\ UNCHANGED <<tree, T, U>>

TVerifyMultiProof ==
  /\ pc = "multiproved"
  /\ res' = [op |-> "T.verifyMultiProof", indices |-> res.indices, multiproof |-> res.out.val,
             instance |-> Tree_verifyMultiProof(T, res.out.val),
             static |-> Static_verifyMultiProof(T.kind, root(T), res.out.val, T.nodeHash)]
  /\ pc' = "done"
  /\ UNCHANGED <<tree, T, U>>

TValidate ==
  /\ pc = "built"
  /\ res' = [op |-> "T.validate", out |-> validate(T)]
  /\ pc' = "done"
  /\ UNCHANGED <<tree, T, U>>

Dump ==
  /\ pc = "built"
  /\ res' = [op |-> "dump", out |-> dump(T)]
  /\ pc' = "dumped"
  /\ UNCHANGED <<tree, T, U>>

\* what a caller may hand to load: the dump, or the dump with one part changed
Tampered(d) ==
  {d}
  \cup {[d EXCEPT !.tree[i] = D(1)] : i \in 1..Len(d.tree)}
  \cup {[d EXCEPT !.tree = SubSeq(d.tree, 1, Len(d.tree) - 1)]}
  \cup {[d EXCEPT !.values[i].treeIndex = j] : i \in 1..Len(d.values), j \in 0..Len(d.tree)}
  \cup {[d EXCEPT !.values[i].value = [@ EXCEPT !.id = <<1>>]] : i \in 1..Len(d.values)}
  \cup {[d EXCEPT !.format = f] : f \in {"simple-v1", "standard-v1", "nonstandard"}}
  \cup {[d EXCEPT !.hash = h] : h \in {"absent", "custom"}}
  \cup {[d EXCEPT !.leafEncoding = "absent"]}

Loaders == {[class |-> "simple", nodeHash |-> h] : h \in {"none", "custom"}}
           \cup {[class |-> "standard", nodeHash |-> "none"]}

load(loader, data) ==
  IF loader.class = "simple" THEN Simple_load(data, loader.nodeHash) ELSE Standard_load(data)

\* the class that made the tree, given the tree's node hash
OwnLoader(obj) == [class |-> obj.kind, nodeHash |-> obj.nodeHash]

\* the format a class loads
FormatOf(class) == IF class = "simple" THEN "simple-v1" ELSE "standard-v1"

\* { format: f } and nothing else, as the tests hand it to load; the
\* fields it lacks are never read when the format is not the loader's, and
\* are written here as empty
FormatOnly(f) ==
  [format |-> f, tree |-> <<>>, values |-> <<>>, hash |-> "absent", leafEncoding |-> "absent"]

\* the dump goes to any loader, a changed dump to the tree's own, and a
\* bare format to every loader of another format
LoadCalls(obj, d) ==
  {[data |-> d, loader |-> l] : l \in Loaders}
  \cup {[data |-> x, loader |-> OwnLoader(obj)] : x \in Tampered(d)}
  \cup {c \in [data : {FormatOnly(f) : f \in {"simple-v1", "standard-v1", "nonstandard"}},
                 loader : Loaders] :
          c.data.format # FormatOf(c.loader.class)}

Load ==
  /\ pc = "dumped"
  /\ \E call \in LoadCalls(T, res.out) :
       LET data == call.data
           loader == call.loader
           out == load(loader, data)
       IN /\ res' = [op |-> "load", data |-> data, loader |-> loader, out |-> out]
          /\ U' = IF out.ok THEN out.val ELSE NoTree
          /\ pc' = IF out.ok THEN "loaded" ELSE "done"
  /\ UNCHANGED <<tree, T>>

LoadLegacy ==
  /\ pc = "dumped"
  /\ \E data \in Tampered(res.out) :
       LET out == SimpleLegacy_load(data)
       IN /\ res' = [op |-> "loadLegacy", data |-> data,
                     loader |-> [class |-> "simple", nodeHash |-> "none"], out |-> out]
          /\ U' = IF out.ok THEN out.val ELSE NoTree
          /\ pc' = "done"
  /\ UNCHANGED <<tree, T>>

DumpLoaded ==
  /\ pc = "loaded"
  /\ res' = [op |-> "dumpLoaded", data |-> res.data, loader |-> res.loader, out |-> dump(U)]
  /\ pc' = "done"
  /\ UNCHANGED <<tree, T, U>>

\* SimpleMerkleTree.verify called on a root, a leaf and a proof that come
\* from no tree
StaticVerifyArgs ==
  [root : {D(1), hashPair(D(1), D(2))},
   leaf : {HexValue(1), BytesValue(1)},
   proof : SeqsUpTo({D(2), Short}, MaxQueue),
   nodeHash : {"none", "custom"}]

StaticVerify ==
  /\ pc = "start"
  /\ \E a \in StaticVerifyArgs :
       res' = [op |-> "Simple.verify", args |-> a,
               out |-> Static_verify("simple", a.root, a.leaf, a.proof, a.nodeHash)]
  /\ pc' = "done"
  /\ UNCHANGED <<tree, T, U>>

Next ==
  \/ NextCore
  \/ Of
  \/ StaticVerify
  \/ TValidate
  \/ TGetProof
  \/ TVerify
  \/ TGetMultiProof
  \/ TVerifyMultiProof
  \/ Dump
  \/ Load
  \/ LoadLegacy
  \/ DumpLoaded

Spec == Init /\ [][Next]_vars

\* ------------------------------------------- addressing a leaf by its value
\* T.getProof(T.at(i)) after T.getProof(i)
TGetProofOfValue ==
  /\ pc = "proved"
  /\ res' = [op |-> "T.getProof(value)", index |-> res.index, byIndex |-> res.out,
             byValue |-> Tree_getProofOfValue(T, at(T, res.index))]
  /\ pc' = "done"
  /\ UNCHANGED <<tree, T, U>>

\* T.getMultiProof of the values after T.getMultiProof of their indices
TGetMultiProofOfValues ==
  /\ pc = "multiproved"
  /\ res' = [op |-> "T.getMultiProof(values)", indices |-> res.indices, byIndex |-> res.out,
             byValue |-> Tree_getMultiProofOfValues(T,
                           [k \in 1..Len(res.indices) |-> at(T, res.indices[k])])]
  /\ pc' = "done"
  /\ UNCHANGED <<tree, T, U>>

NextAddress ==
  \/ Of
  \/ TGetProof
  \/ TGetMultiProof
  \/ TGetProofOfValue
  \/ TGetMultiProofOfValues

SpecAddress == Init /\ [][NextAddress]_vars

\* --------------------------------------------------- a tree never validated
MaxTamperedLeaves == 2

StandardArgs ==
  [kind : {"standard"}, values : SeqsUpTo(StandardValues, MaxTamperedLeaves),
   sortLeaves : BOOLEAN, nodeHash : {"none"}]

\* StandardMerkleTree.of
OfStandard ==
  /\ pc = "start"
  /\ \E args \in StandardArgs :
       LET out == prepare(args.kind, args.values, args.sortLeaves, args.nodeHash)
       IN /\ res' = [op |-> "of", args |-> args, out |-> out]
          /\ T' = IF out.ok THEN out.val ELSE NoTree
          /\ pc' = IF out.ok THEN "built" ELSE "done"
  /\ UNCHANGED <<tree, U>>

\* the client dumps its tree, changes the dump and goes on with the tree
\* that the load of src/src/standard.ts makes of it
LoadUnvalidated ==
  /\ pc = "built"
  /\ res.op = "of"
  /\ \E data \in Tampered(dump(T)) :
       LET out == StandardLegacy_load(data)
       IN /\ res' = [op |-> "loadUnvalidated", data |-> data, out |-> out]
          /\ T' = IF out.ok THEN out.val ELSE T
          /\ pc' = IF out.ok THEN "built" ELSE "done"
  /\ UNCHANGED <<tree, U>>

NextUnvalidated ==
  \/ OfStandard
  \/ LoadUnvalidated
  \/ TGetProof
  \/ TVerify
  \/ TGetMultiProof
  \/ TVerifyMultiProof

SpecUnvalidated == Init /\ [][NextUnvalidated]_vars

\* ------------------------------------------- trees with a caller's node hash
CustomHashArgs ==
  [kind : {"simple"}, values : SeqsUpTo({HexValue(k) : k \in 1..NumIds}, MaxLeaves),
   sortLeaves : BOOLEAN, nodeHash : {"custom", "ordered"}]

\* SimpleMerkleTree.of(values, { sortLeaves, nodeHash })
OfCustomHash ==
  /\ pc = "start"
  /\ \E args \in CustomHashArgs :
       LET out == prepare(args.kind, args.values, args.sortLeaves, args.nodeHash)
       IN /\ res' = [op |-> "of", args |-> args, out |-> out]
          /\ T' = IF out.ok THEN out.val ELSE NoTree
          /\ pc' = IF out.ok THEN "built" ELSE "done"
  /\ UNCHANGED <<tree, U>>

NextCustomHash ==
  \/ OfCustomHash
  \/ TGetProof
  \/ TVerify
  \/ TGetMultiProof
  \/ TVerifyMultiProof

SpecCustomHash == Init /\ [][NextCustomHash]_vars

\* ------------------------------------------ arrays the caller and a tree share
\* what one assignment of the caller makes of an object whose node array and
\* value table the caller holds: dump returns this.tree and this.values
\* themselves, load keeps data.tree and data.values themselves
Written(obj) ==
  {[obj EXCEPT !.tree[i] = x] : i \in 1..Len(obj.tree), x \in {D(1), Short}}
  \cup {[obj EXCEPT !.values[i].treeIndex = j] : i \in 1..Len(obj.values), j \in 0..Len(obj.tree)}
  \cup {[obj EXCEPT !.values[i].value = v] : i \in 1..Len(obj.values), v \in StandardValues}

\* d = T.dump(); d.tree[i] = x, or d.values[i].treeIndex = j, or
\* d.values[i].value = v
CallerWritesDump ==
  /\ pc = "dumped"
  /\ \E w \in Written(T) \ {T} :
       /\ T' = w
       /\ res' = [op |-> "write", out |-> dump(w)]
  /\ pc' = "done"
  /\ UNCHANGED <<tree, U>>

\* U = load(data); data.tree[i] = x, or data.values[i].treeIndex = j, or
\* data.values[i].value = v
CallerWritesLoaded ==
  /\ pc = "loaded"
  /\ \E w \in Written(U) \ {U} :
       /\ U' = w
       /\ res' = [op |-> "write", out |-> dump(w)]
  /\ pc' = "done"
  /\ UNCHANGED <<tree, T>>

NextShared ==
  \/ OfStandard
  \/ TGetProof
  \/ TVerify
  \/ TGetMultiProof
  \/ TVerifyMultiProof
  \/ TValidate
  \/ Dump
  \/ Load
  \/ DumpLoaded
  \/ CallerWritesDump
  \/ CallerWritesLoaded

SpecShared == Init /\ [][NextShared]_vars

\* ------------------------------------------------ the node hash on its own
\* 32-byte digests: leaves and hashes of two leaves
Digests == Atoms \cup {hashPair(a, b) : a, b \in Atoms}

\* hashPair and standardNodeHash called on a pair and on the pair reversed
HashBothWays ==
  /\ pc = "start"
  /\ \E a, b \in Digests :
       res' = [op |-> "hashPair", a |-> a, b |-> b,
               ab |-> hashPair(a, b), ba |-> hashPair(b, a),
               standardAB |-> standardNodeHash(a, b), standardBA |-> standardNodeHash(b, a)]
  /\ pc' = "done"
  /\ UNCHANGED <<tree, T, U>>

\* processProof called on a leaf and a proof that come from no tree
ProcessGivenProof ==
  /\ pc = "start"
  /\ \E leaf \in Digests, proof \in SeqsUpTo(Digests, MaxQueue) :
       res' = [op |-> "processGivenProof", leaf |-> leaf, proof |-> proof,
               out |-> processProof(leaf, proof, "none")]
  /\ pc' = "done"
  /\ UNCHANGED <<tree, T, U>>

NextHash ==
  \/ HashBothWays
  \/ ProcessGivenProof

SpecHash == InitCore /\ [][NextHash]_vars

\* ------------------------------------------- getMultiProof, one iteration at a time
\* getMultiProof up to its loop: the checks and the sort.  `indices` is the
\* list as the caller passed it and `argument` the caller's list as it is
\* now: indices.sort works in place, and the queue is a copy taken after it.
GetMultiProofEnter ==
  /\ pc = "tree"
  /\ \E indices \in IndexLists(LeafPositions(Len(tree)), -1..Len(tree)) :
       IF Len(indices) = 0
       THEN /\ res' = [op |-> "getMultiProof", indices |-> indices, stack |-> <<>>,
                       argument |-> indices, treeAtCall |-> tree,
                       out |-> Ok([leaves |-> <<>>,
                                   proof |-> SubSeq(tree, 1, Min(1, Len(tree))),
                                   proofFlags |-> <<>>])]
            /\ pc' = "done"
       ELSE IF \E k \in 1..Len(indices) : ~isLeafNode(tree, indices[k])
       THEN /\ res' = [op |-> "getMultiProof", indices |-> indices, stack |-> <<>>,
                       argument |-> indices, treeAtCall |-> tree,
                       out |-> throwError("Index is not a leaf")]
            /\ pc' = "done"
       ELSE /\ res' = [op |-> "getMultiProof.loop", indices |-> indices,
                       sorted |-> SortDesc(indices),
                       argument |-> SortDesc(indices), treeAtCall |-> tree,
                       st |-> [stack |-> SortDesc(indices), proof |-> <<>>, proofFlags |-> <<>>]]
            /\ pc' = "looping"
  /\ UNCHANGED <<tree, T, U>>

\* one iteration of the while loop
GetMultiProofIterate ==
  /\ pc = "looping"
  /\ MultiProofContinues(res.st)
  /\ res' = [res EXCEPT !.st = MultiProofStep(tree, res.st)]
  /\ UNCHANGED <<pc, tree, T, U>>

\* the loop condition fails: the return statement
GetMultiProofReturn ==
  /\ pc = "looping"
  /\ ~MultiProofContinues(res.st)
  /\ res' = [op |-> "getMultiProof", indices |-> res.indices, stack |-> res.st.stack,
             argument |-> res.argument, treeAtCall |-> res.treeAtCall,
             out |-> Ok([leaves |-> [k \in 1..Len(res.sorted) |-> At(tree, res.sorted[k])],
                         proof |-> res.st.proof,
                         proofFlags |-> res.st.proofFlags])]
  /\ pc' = "done"
  /\ UNCHANGED <<tree, T, U>>

\* processMultiProof up to its loop: the checks and the two copies.
\* `multiproof` is the object as the caller passed it and `argument` the
\* caller's object as it is now; the loop works on the copies.
ProcessMultiProofEnter ==
  /\ pc = "start"
  /\ \E mp \in AnyMultiProof :
       LET failure ==
             IF \E k \in 1..Len(mp.leaves) : ~isValidMerkleNode(mp.leaves[k]) THEN NodeErr
             ELSE IF \E k \in 1..Len(mp.proof) : ~isValidMerkleNode(mp.proof[k]) THEN NodeErr
             ELSE IF Len(mp.proof) < CountFalse(mp.proofFlags)
             THEN Err("Error", "Invalid multiproof format")
             ELSE IF Len(mp.leaves) + Len(mp.proof) # Len(mp.proofFlags) + 1
             THEN Err("Error", "Provided leaves and multiproof are not compatible")
             ELSE Ok(TRUE)
       IN IF ~failure.ok
          THEN /\ res' = [op |-> "processMultiProof", multiproof |-> mp,
                          argument |-> mp, out |-> failure]
               /\ pc' = "done"
          ELSE /\ res' = [op |-> "processMultiProof.loop", multiproof |-> mp,
                          argument |-> mp,
                          stack |-> mp.leaves, proof |-> mp.proof, i |-> 0]
               /\ pc' = "folding"
  /\ UNCHANGED <<tree, T, U>>

\* one iteration of the for loop over the flags
ProcessMultiProofIterate ==
  /\ pc = "folding"
  /\ res.i < Len(res.multiproof.proofFlags)
  /\ LET flag == res.multiproof.proofFlags[res.i + 1]
         a == Shift(res.stack)
         s1 == Shifted(res.stack)
         b == IF flag THEN Shift(s1) ELSE Shift(res.proof)
         s2 == IF flag THEN Shifted(s1) ELSE s1
         p2 == IF flag THEN res.proof ELSE Shifted(res.proof)
     IN IF a = Undefined \/ b = Undefined
        THEN /\ res' = [op |-> "processMultiProof", multiproof |-> res.multiproof,
                        argument |-> res.argument,
                        out |-> Err("Error", "Uint8Array list expected")]
             /\ pc' = "done"
        ELSE /\ res' = [res EXCEPT !.stack = Append(s2, hashPair(a, b)),
                                   !.proof = p2,
                                   !.i = res.i + 1]
             /\ pc' = "folding"
  /\ UNCHANGED <<tree, T, U>>

\* the flags are used up: return stack.pop() ?? proof.shift()
ProcessMultiProofReturn ==
  /\ pc = "folding"
  /\ res.i = Len(res.multiproof.proofFlags)
  /\ res' = [op |-> "processMultiProof.return", multiproof |-> res.multiproof,
             argument |-> res.argument,
             stack |-> res.stack, proof |-> res.proof,
             out |-> Ok(IF Len(res.stack) > 0 THEN res.stack[Len(res.stack)]
                        ELSE Shift(res.proof))]
  /\ pc' = "done"
  /\ UNCHANGED <<tree, T, U>>

NextSteps ==
  \/ MakeMerkleTree
  \/ GetMultiProofEnter
  \/ GetMultiProofIterate
  \/ GetMultiProofReturn
  \/ ProcessMultiProofEnter
  \/ ProcessMultiProofIterate
  \/ ProcessMultiProofReturn

SpecSteps == InitCore /\ [][NextSteps]_vars

\* the loop is not left half-way: an iteration that can be made is made
SpecStepsFair ==
  /\ SpecSteps
  /\ WF_vars(GetMultiProofIterate)
  /\ WF_vars(GetMultiProofReturn)

\* ------------------------------------------------- proofs from a loaded tree
SmallArgs == {a \in OfArgs : Len(a.values) <= MaxTamperedLeaves}

\* SimpleMerkleTree.of / StandardMerkleTree.of on a few values
OfSmall ==
  /\ pc = "start"
  /\ \E args \in SmallArgs :
       LET out == prepare(args.kind, args.values, args.sortLeaves, args.nodeHash)
       IN /\ res' = [op |-> "of", args |-> args, out |-> out]
          /\ T' = IF out.ok THEN out.val ELSE NoTree
          /\ pc' = IF out.ok THEN "built" ELSE "done"
  /\ UNCHANGED <<tree, U>>

\* a simple dump in which one entry of the value table was rewritten to name
\* a node of the tree, with that node's 32 bytes as its value
Crafted(d) ==
  IF d.format = "simple-v1"
  THEN {[d EXCEPT !.values[i] = [value |-> [repr |-> "hex", len |-> d.tree[j + 1].len,
                                            id |-> d.tree[j + 1].id],
                                 treeIndex |-> j]] :
          i \in 1..Len(d.values), j \in 0..(Len(d.tree) - 1)}
  ELSE {}

\* load, by the class and with the node hash of the tree dumped, of the
\* dump as it is, changed in one part, or crafted
LoadCrafted ==
  /\ pc = "dumped"
  /\ \E data \in Tampered(res.out) \cup Crafted(res.out) :
       LET loader == OwnLoader(T)
           out == load(loader, data)
       IN /\ res' = [op |-> "load", data |-> data, loader |-> loader, out |-> out]
          /\ U' = IF out.ok THEN out.val ELSE NoTree
          /\ pc' = IF out.ok THEN "loaded" ELSE "done"
  /\ UNCHANGED <<tree, T>>

\* U.getProof(index) on the loaded tree
UGetProof ==
  /\ pc = "loaded"
  /\ \E index \in -1..length(U) :
       res' = [op |-> "U.getProof", data |-> res.data, index |-> index,
               out |-> Tree_getProof(U, index)]
  /\ pc' = "done"
  /\ UNCHANGED <<tree, T, U>>

NextLoaded ==
  \/ OfSmall
  \/ Dump
  \/ LoadCrafted
  \/ UGetProof

SpecLoaded == Init /\ [][NextLoaded]_vars

\* ------------------------------------------------- two trees, one verifier
\* a leaf that is itself the node hash of two digests
Composite == hashPair(D(1), D(2))

ValueOf(node) == [repr |-> "hex", len |-> node.len, id |-> node.id]

CrossValues == {HexValue(k) : k \in 1..NumIds} \cup {ValueOf(Composite)}

CrossArgs ==
  [kind : {"simple"}, values : SeqsUpTo(CrossValues, MaxOtherLeaves) \ {<<>>},
   sortLeaves : BOOLEAN, nodeHash : {"none"}]

CrossTrees ==
  {prepare(a.kind, a.values, a.sortLeaves, a.nodeHash).val : a \in CrossArgs}

\* the tree whose proofs are taken
OfProver ==
  /\ pc = "start"
  /\ \E t \in CrossTrees :
       /\ T' = t
       /\ res' = [op |-> "of", out |-> Ok(t)]
  /\ pc' = "built"
  /\ UNCHANGED <<tree, U>>

\* MerkleTreeImpl.verify(leaf: T, proof): the leaf given as a value
Tree_verifyValue(obj, leaf, proof) ==
  VerifyAgainst(root(obj), leafHashOf(obj.kind, leaf), proof, obj.nodeHash)

\* another tree verifies the proof: other.verify(leaf, proof) and the
\* static verify(other.root, leaf, proof)
VerifyOnOther ==
  /\ pc = "proved"
  /\ \E other \in CrossTrees :
       /\ U' = other
       /\ res' = [op |-> "verifyOnOther", index |-> res.index, proof |-> res.out.val,
                  instance |-> Tree_verifyValue(other, at(T, res.index), res.out.val),
                  static |-> Static_verify(other.kind, root(other), at(T, res.index),
                                           res.out.val, other.nodeHash)]
  /\ pc' = "done"
  /\ UNCHANGED <<tree, T>>

VerifyMultiOnOther ==
  /\ pc = "multiproved"
  /\ \E other \in CrossTrees :
       /\ U' = other
       /\ res' = [op |-> "verifyMultiOnOther", indices |-> res.indices,
                  multiproof |-> res.out.val,
                  instance |-> Tree_verifyMultiProof(other, res.out.val),
                  static |-> Static_verifyMultiProof(other.kind, root(other), res.out.val,
                                                     other.nodeHash)]
  /\ pc' = "done"
  /\ UNCHANGED <<tree, T>>

NextCross ==
  \/ OfProver
  \/ TGetProof
  \/ TGetMultiProof
  \/ VerifyOnOther
  \/ VerifyMultiOnOther

SpecCross == Init /\ [][NextCross]_vars

\* ====================================================================
\* Properties
\* ====================================================================
InvalidArgument == "InvalidArgumentError"

Invariant == "InvariantError"

Fails(out, kind, msg) == ~out.ok /\ out.kind = kind /\ out.msg = msg

IsLeafPosition(t, i) == i >= 0 /\ i < Len(t) /\ 2 * i + 1 >= Len(t)

ValidLeaves(leaves) == \A k \in 1..Len(leaves) : leaves[k].len = 32

\* ------------------------------------------------------------------ C1
\* C1: a proof obtained for a leaf verifies.  In the core, processProof of
\* the leaf at a leaf position and of getProof's proof for that position
\* is tree[0], and getProof succeeds at every leaf position.  In the
\* facade, getProof succeeds for every value index, and T.verify(i, proof)
\* and the static verify(T.root, T.at(i), proof) both return true.
C1_SingleProofRoundTrip ==
  /\ (res.op = "getProof" /\ IsLeafPosition(tree, res.index)) => res.out.ok
  /\ res.op = "processProof" => res.out = Ok(tree[1])
  /\ (res.op = "T.getProof" /\ res.index \in 0..(Len(T.values) - 1)) => res.out.ok
  /\ res.op = "T.verify" => res.instance = Ok(TRUE) /\ res.static = Ok(TRUE)

\* the proof of a leaf two levels down in a three-leaf tree built with the
\* custom node hash has been verified
C1_Witness ==
  /\ res.op = "T.verify"
  /\ Len(T.values) = 3
  /\ T.nodeHash = "custom"
  /\ Len(res.proof) = 2
  /\ res.instance = Ok(TRUE)

\* ------------------------------------------------------------------ C2
\* C2: a multiproof obtained for distinct leaves, listed in any order,
\* verifies, the empty list included.  In the core, getMultiProof succeeds
\* on every duplicate-free list of leaf positions and processMultiProof of
\* its result is tree[0].  In the facade, getMultiProof succeeds on every
\* duplicate-free list of value indices, and T.verifyMultiProof and the
\* static verifyMultiProof of the result both return true.
C2_MultiProofRoundTrip ==
  /\ (/\ res.op = "getMultiProof"
      /\ IsDistinct(res.indices)
      /\ \A k \in 1..Len(res.indices) : IsLeafPosition(tree, res.indices[k]))
     => res.out.ok
  /\ (res.op = "processMultiProof" /\ IsDistinct(res.indices)) => res.out = Ok(tree[1])
  /\ (/\ res.op = "T.getMultiProof"
      /\ IsDistinct(res.indices)
      /\ \A k \in 1..Len(res.indices) : res.indices[k] \in 0..(Len(T.values) - 1))
     => res.out.ok
  /\ (res.op = "T.verifyMultiProof" /\ IsDistinct(res.indices))
     => res.instance = Ok(TRUE) /\ res.static = Ok(TRUE)

\* a multiproof of two leaves of a three-leaf tree, asked for in ascending
\* order of tree index, has been processed to the root
C2_Witness ==
  /\ res.op = "processMultiProof"
  /\ Len(tree) = 5
  /\ Len(res.indices) = 2
  /\ res.indices[1] < res.indices[2]
  /\ \E k \in 1..Len(res.multiproof.proofFlags) : res.multiproof.proofFlags[k]
  /\ res.out = Ok(tree[1])

\* ------------------------------------------------------------------ C3
LeafDigests(obj) == {leafHashOf(obj.kind, obj.values[k].value) : k \in 1..Len(obj.values)}

CrossVerified == res.op \in {"verifyOnOther", "verifyMultiOnOther"}

NonEmptyRequest == res.op = "verifyMultiOnOther" => Len(res.indices) > 0

\* a digest that is not the node hash of two digests
IsPlain(node) == Len(node.id) = 1

\* C3 as stated: when the leaf digests of T and of the other tree differ as
\* sets, no proof and no multiproof of one or more leaves that T produced
\* is accepted by the other tree's verify or by the static verify with the
\* other tree's root.
C3_CrossTreeRejection ==
  (CrossVerified /\ NonEmptyRequest /\ LeafDigests(T) # LeafDigests(U))
    => res.instance = Ok(FALSE) /\ res.static = Ok(FALSE)

\* C3 amended: the same, for trees none of whose leaf digests is itself
\* the node hash of two digests.
C3_CrossTreeRejectionOfPlainLeaves ==
  (/\ CrossVerified
   /\ NonEmptyRequest
   /\ LeafDigests(T) # LeafDigests(U)
   /\ \A d \in LeafDigests(T) \cup LeafDigests(U) : IsPlain(d))
    => res.instance = Ok(FALSE) /\ res.static = Ok(FALSE)

\* a multiproof of both leaves of a two-leaf tree was rejected by a
\* two-leaf tree that shares one leaf with it
C3_Witness ==
  /\ res.op = "verifyMultiOnOther"
  /\ Len(res.indices) = 2
  /\ Len(U.values) = 2
  /\ LeafDigests(T) # LeafDigests(U)
  /\ LeafDigests(T) \cap LeafDigests(U) # {}
  /\ \A d \in LeafDigests(T) \cup LeafDigests(U) : IsPlain(d)
  /\ res.instance = Ok(FALSE)
  /\ res.static = Ok(FALSE)

\* ------------------------------------------------------------------ C4
\* load was given T's own dump, by T's own class, with T's node hash
OwnDump ==
  /\ res.op \in {"load", "dumpLoaded"}
  /\ res.data = dump(T)
  /\ res.loader.class = T.kind
  /\ res.loader.nodeHash = T.nodeHash

\* C4 as stated: load(T.dump()) succeeds, its dump equals T's dump, and the
\* loaded tree has T's root, T's length and T's value at every index.
C4_DumpLoadRoundTrip ==
  /\ (res.op = "load" /\ OwnDump) =>
       /\ res.out.ok
       /\ root(U) = root(T)
       /\ length(U) = length(T)
       /\ \A i \in 0..(length(T) - 1) : at(U, i) = at(T, i)
  /\ (res.op = "dumpLoaded" /\ OwnDump) => res.out = dump(T)

HexOf(obj, i) == IF obj.kind = "simple" THEN toHex(at(obj, i)) ELSE at(obj, i)

\* C4 amended: load(T.dump()) succeeds, its dump equals T's dump, and the
\* loaded tree has T's root and length; in the simple variant its value at
\* every index is the hex rendering of T's value (the value itself when it
\* was given as a hex string), in the standard variant it is T's value.
C4_DumpLoadRoundTripUpToHex ==
  /\ (res.op = "load" /\ OwnDump) =>
       /\ res.out.ok
       /\ root(U) = root(T)
       /\ length(U) = length(T)
       /\ \A i \in 0..(length(T) - 1) : at(U, i) = HexOf(T, i)
  /\ (res.op = "dumpLoaded" /\ OwnDump) => res.out = dump(T)

\* the dump of a tree loaded from the dump of a sorted three-value tree
\* with a custom node hash, one value of which was given as bytes
C4_Witness ==
  /\ res.op = "dumpLoaded"
  /\ OwnDump
  /\ T.nodeHash = "custom"
  /\ Len(T.values) = 3
  /\ \E k \in 1..3 : T.values[k].value.repr = "bytes"
  /\ \E k \in 1..3 : T.values[k].treeIndex # 5 - k
  /\ res.out = dump(T)

\* ------------------------------------------------------------------ C5
LoadCalled == res.op \in {"load", "loadLegacy"}

\* the dump passes load's checks of format, hash tag and leaf encoding
WellTagged ==
  /\ res.data.format = (IF res.loader.class = "simple" THEN "simple-v1" ELSE "standard-v1")
  /\ res.loader.class = "simple" => (res.loader.nodeHash = "custom") = (res.data.hash = "custom")
  /\ res.loader.class = "standard" => res.data.leafEncoding # "absent"

ValueMismatch(data, class) ==
  \E k \in 1..Len(data.values) :
    At(data.tree, data.values[k].treeIndex) # leafHashOf(class, data.values[k].value)

\* C5: load does not return a tree it has not validated.  Given a dump in
\* which some value's leaf hash is not tree[treeIndex], load fails with an
\* InvariantError 'Merkle tree does not contain the expected value'; given
\* a dump whose values match but whose node array is not a valid Merkle
\* tree, load fails with an InvariantError 'Merkle tree is invalid'.
C5_LoadValidates ==
  (LoadCalled /\ WellTagged) =>
    /\ ValueMismatch(res.data, res.loader.class) =>
         Fails(res.out, Invariant, "Merkle tree does not contain the expected value")
    /\ (/\ ~ValueMismatch(res.data, res.loader.class)
        /\ ~isValidMerkleTree(res.data.tree, res.loader.nodeHash)) =>
         Fails(res.out, Invariant, "Merkle tree is invalid")

\* ------------------------------------------------------------------ C6
\* C6: for a non-empty list of 32-byte leaves makeMerkleTree returns an
\* array of 2L - 1 nodes in which the k-th leaf is at index size - 1 - k,
\* every node with two children is the node hash of its children, and the
\* parent of every node but the root is the node hash of the node and its
\* sibling.
C6_MakeMerkleTreePostcondition ==
  (res.op = "makeMerkleTree" /\ Len(res.leaves) > 0 /\ ValidLeaves(res.leaves)) =>
    /\ res.out.ok
    /\ LET t == res.out.val
           size == Len(t)
           L == Len(res.leaves)
       IN /\ size = 2 * L - 1
          /\ \A k \in 0..(L - 1) : t[(size - 1 - k) + 1] = res.leaves[k + 1]
          /\ \A i \in 0..(size - 1) :
               2 * i + 2 < size => t[i + 1] = hashPair(t[(2 * i + 1) + 1], t[(2 * i + 2) + 1])
          /\ \A i \in 1..(size - 1) :
               LET sib == IF i % 2 = 1 THEN i + 1 ELSE i - 1
               IN t[((i - 1) \div 2) + 1] = hashPair(t[i + 1], t[sib + 1])

\* a tree of three leaves, two of them different, has been built
C6_Witness ==
  /\ res.op = "makeMerkleTree"
  /\ res.out.ok
  /\ Len(res.leaves) = 3
  /\ res.leaves[1] # res.leaves[3]
  /\ Len(res.out.val) = 5

\* ------------------------------------------------------------------ C7
\* C7: getMultiProof called with a list of leaf positions in which one
\* occurs twice fails with an InvalidArgumentError 'Cannot prove
\* duplicated index'.
C7_DuplicateIndexRejected ==
  (/\ res.op = "getMultiProof"
   /\ ~IsDistinct(res.indices)
   /\ \A k \in 1..Len(res.indices) : IsLeafPosition(tree, res.indices[k]))
    => Fails(res.out, InvalidArgument, "Cannot prove duplicated index")

\* ------------------------------------------------------------------ C8
SomeNonLeaf ==
  \/ res.op = "getProof" /\ ~IsLeafPosition(tree, res.index)
  \/ /\ res.op = "getMultiProof"
     /\ \E k \in 1..Len(res.indices) : ~IsLeafPosition(tree, res.indices[k])

C9_BadLeavesInvalidArgument ==
  /\ (res.op = "makeMerkleTree" /\ Len(res.leaves) = 0)
       => Fails(res.out, InvalidArgument, "Expected non-zero number of leaves")
  /\ (res.op = "makeMerkleTree" /\ ~ValidLeaves(res.leaves))
       => ~res.out.ok /\ res.out.kind = InvalidArgument

\* ----------------------------------------------------------------- C10
FalseFlags(flags) == Cardinality({k \in 1..Len(flags) : flags[k] = FALSE})

\* C10: processMultiProof of a multiproof of 32-byte digests fails with an
\* InvalidArgumentError 'Invalid multiproof format' when the proof has
\* fewer entries than proofFlags has false flags, and otherwise with an
\* InvalidArgumentError 'Provided leaves and multiproof are not compatible'
\* when |leaves| + |proof| is not |proofFlags| + 1.
C10_ShapeChecksInvalidArgument ==
  (/\ res.op = "processGivenMultiProof"
   /\ ValidLeaves(res.multiproof.leaves)
   /\ ValidLeaves(res.multiproof.proof)) =>
    LET mp == res.multiproof
    IN IF Len(mp.proof) < FalseFlags(mp.proofFlags)
       THEN Fails(res.out, InvalidArgument, "Invalid multiproof format")
       ELSE Len(mp.leaves) + Len(mp.proof) # Len(mp.proofFlags) + 1
              => Fails(res.out, InvalidArgument,
                       "Provided leaves and multiproof are not compatible")

\* ----------------------------------------------------------------- C11
PassesShapeChecks(mp) ==
  /\ ValidLeaves(mp.leaves)
  /\ ValidLeaves(mp.proof)
  /\ Len(mp.proof) >= FalseFlags(mp.proofFlags)
  /\ Len(mp.leaves) + Len(mp.proof) = Len(mp.proofFlags) + 1

\* some step of the loop takes from an empty queue, the queues holding
\* nStack and nProof entries before step k
RECURSIVE QueueUnderflow(_, _, _, _)
QueueUnderflow(nStack, nProof, flags, k) ==
  IF k > Len(flags) THEN FALSE
  ELSE IF nStack = 0 THEN TRUE
  ELSE IF flags[k] THEN nStack < 2 \/ QueueUnderflow(nStack - 1, nProof, flags, k + 1)
  ELSE nProof = 0 \/ QueueUnderflow(nStack, nProof - 1, flags, k + 1)

Underflows(mp) == QueueUnderflow(Len(mp.leaves), Len(mp.proof), mp.proofFlags, 1)

\* C11: processMultiProof of a multiproof that passes both shape checks
\* and whose flags make the loop take from an empty queue fails with an
\* InvariantError.
C11_UnderflowRaisesInvariant ==
  (/\ res.op = "processGivenMultiProof"
   /\ PassesShapeChecks(res.multiproof)
   /\ Underflows(res.multiproof))
    => ~res.out.ok /\ res.out.kind = Invariant

WellFormedTree(t) ==
  /\ Len(t) > 0
  /\ \A i \in 1..Len(t) : t[i].len = 32
  /\ \A i \in 0..(Len(t) - 1) :
       2 * i + 2 < Len(t) => t[i + 1] = hashPair(t[(2 * i + 1) + 1], t[(2 * i + 2) + 1])
  /\ \A i \in 0..(Len(t) - 1) : ~(2 * i + 1 < Len(t) /\ 2 * i + 2 >= Len(t))

\* C13: isValidMerkleTree returns true exactly for a non-empty array of
\* 32-byte digests in which every node with a right child is the node hash
\* of its two children and no node has a left child only; it returns false
\* for every array of even length and true for every array makeMerkleTree
\* returned.
C13_IsValidMerkleTreeExact ==
  res.op = "isValidMerkleTree" =>
    /\ res.out = WellFormedTree(res.tree)
    /\ Len(res.tree) % 2 = 0 => res.out = FALSE
    /\ (pc = "done" /\ tree # <<>> /\ res.tree = tree) => res.out = TRUE

\* a five-node array that differs from a made tree in one internal node
\* was found invalid
C13_Witness ==
  /\ res.op = "isValidMerkleTree"
  /\ Len(res.tree) = 5
  /\ Len(tree) = 5
  /\ \A i \in 1..5 : res.tree[i].len = 32
  /\ res.tree[2] # tree[2]
  /\ res.out = FALSE

\* ----------------------------------------------------------------- C14
WellFormedUnder(t, nh) ==
  /\ Len(t) > 0
  /\ \A i \in 1..Len(t) : t[i].len = 32
  /\ \A i \in 0..(Len(t) - 1) :
       2 * i + 2 < Len(t) => t[i + 1] = NodeHash(nh, t[(2 * i + 1) + 1], t[(2 * i + 2) + 1])
  /\ \A i \in 0..(Len(t) - 1) : ~(2 * i + 1 < Len(t) /\ 2 * i + 2 >= Len(t))

\* C14: validate succeeds exactly when every stored value's leaf hash is
\* tree[treeIndex] and the node array is a valid Merkle tree, and fails
\* with an InvariantError otherwise; it succeeds on every tree built by
\* of.  (load runs validate on the object it built from the dump.)
C14_ValidateExact ==
  /\ res.op = "T.validate" => res.out.ok
  /\ (res.op = "load" /\ WellTagged) =>
       /\ res.out.ok = (/\ ~ValueMismatch(res.data, res.loader.class)
                        /\ WellFormedUnder(res.data.tree, res.loader.nodeHash))
       /\ ~res.out.ok => res.out.kind = Invariant

\* validate refused a custom-hash tree of three values all of which match
\* their leaves, one node of the array having been replaced
C14_Witness ==
  /\ res.op = "load"
  /\ WellTagged
  /\ res.loader.nodeHash = "custom"
  /\ Len(res.data.values) = 3
  /\ ~ValueMismatch(res.data, res.loader.class)
  /\ Fails(res.out, Invariant, "Merkle tree is invalid")

\* ----------------------------------------------------------------- C15
ByValueCalled == res.op \in {"T.getProof(value)", "T.getMultiProof(values)"}

DistinctRequest == res.op = "T.getMultiProof(values)" => IsDistinct(res.indices)

\* C15 as stated: for every tree built by of, also one holding the same
\* value twice, getProof of a value index and getProof of the value at
\* that index return the same proof, and getMultiProof of distinct indices
\* and getMultiProof of the values at them return the same multiproof.
C15_IndexAndValueAgree ==
  (ByValueCalled /\ DistinctRequest) => res.byValue = res.byIndex

SameLeaf(obj, i, j) ==
  leafHashOf(obj.kind, obj.values[i + 1].value) = leafHashOf(obj.kind, obj.values[j + 1].value)

\* the last value index whose leaf hash is that of value i
LastWithLeafOf(obj, i) ==
  CHOOSE j \in 0..(Len(obj.values) - 1) :
    /\ SameLeaf(obj, i, j)
    /\ \A k \in 0..(Len(obj.values) - 1) : SameLeaf(obj, i, k) => k <= j

NoRepeatedLeaf(obj) ==
  \A i, j \in 0..(Len(obj.values) - 1) : SameLeaf(obj, i, j) => i = j

\* C15 amended: a value addresses the last index that holds its leaf hash.
\* getProof of the value at i is getProof of that index, and getMultiProof
\* of values is getMultiProof of those indices; in a tree no two values of
\* which have the same leaf hash the two ways of addressing agree.
C15_ValueAddressesLastIndex ==
  /\ res.op = "T.getProof(value)" =>
       res.byValue = Tree_getProof(T, LastWithLeafOf(T, res.index))
  /\ res.op = "T.getMultiProof(values)" =>
       res.byValue = Tree_getMultiProof(T, [k \in 1..Len(res.indices) |->
                                              LastWithLeafOf(T, res.indices[k])])
  /\ (ByValueCalled /\ DistinctRequest /\ NoRepeatedLeaf(T)) => res.byValue = res.byIndex

\* in a tree that holds a value twice, the proof asked for by the value
\* at the first of the two indices is another proof than the one asked
\* for by the index
C15_Witness ==
  /\ res.op = "T.getProof(value)"
  /\ LastWithLeafOf(T, res.index) # res.index
  /\ res.byValue.ok
  /\ res.byValue # res.byIndex

\* ----------------------------------------------------------------- C16
\* the numbers of a set, largest first
RECURSIVE Descending(_)
Descending(S) ==
  IF S = {} THEN <<>>
  ELSE LET m == CHOOSE x \in S : \A y \in S : y <= x
       IN <<m>> \o Descending(S \ {m})

Range(s) == {s[k] : k \in 1..Len(s)}

\* C16: for a list of distinct leaf indices the leaves of the multiproof
\* are as many as the indices asked for and are the digests at those
\* indices, largest tree index first, whatever the order of the request.
\* In the core the digests are the nodes tree[i]; in the facade they are
\* the leaf hashes of the values returned.
C16_MultiProofLeavesDescending ==
  /\ (/\ res.op = "getMultiProof"
      /\ IsDistinct(res.indices)
      /\ \A k \in 1..Len(res.indices) : IsLeafPosition(tree, res.indices[k]))
     => /\ res.out.ok
        /\ Len(res.out.val.leaves) = Len(res.indices)
        /\ res.out.val.leaves =
             [k \in 1..Len(res.indices) |-> tree[Descending(Range(res.indices))[k] + 1]]
  /\ (/\ res.op = "T.getMultiProof"
      /\ IsDistinct(res.indices)
      /\ \A k \in 1..Len(res.indices) : res.indices[k] \in 0..(Len(T.values) - 1))
     => /\ res.out.ok
        /\ Len(res.out.val.leaves) = Len(res.indices)
        /\ [k \in 1..Len(res.indices) |-> leafHashOf(T.kind, res.out.val.leaves[k])] =
             [k \in 1..Len(res.indices) |->
                T.tree[Descending({T.values[i + 1].treeIndex : i \in Range(res.indices)})[k] + 1]]

\* three leaves with three different digests were asked for in ascending
\* order of tree index and came back in descending order
C16_Witness ==
  /\ res.op = "getMultiProof"
  /\ res.indices = <<2, 3, 4>>
  /\ Len(tree) = 5
  /\ tree[3] # tree[5]
  /\ res.out.ok
  /\ res.out.val.leaves = <<tree[5], tree[4], tree[3]>>

\* ----------------------------------------------------------------- C17
EmptyMultiProof(rootNode) == [leaves |-> <<>>, proof |-> <<rootNode>>, proofFlags |-> <<>>]

\* C17: on every tree getMultiProof of the empty list returns exactly
\* {leaves: [], proof: [root], proofFlags: []}; processMultiProof of that
\* result returns the root, and verifyMultiProof of it, on the tree and
\* static, is true.
C17_EmptyMultiProof ==
  /\ (res.op = "getMultiProof" /\ res.indices = <<>>)
     => res.out = Ok(EmptyMultiProof(tree[1]))
  /\ (res.op = "processMultiProof" /\ res.indices = <<>>)
     => res.out = Ok(tree[1])
  /\ (res.op = "T.getMultiProof" /\ res.indices = <<>>)
     => res.out = Ok(EmptyMultiProof(T.tree[1]))
  /\ (res.op = "T.verifyMultiProof" /\ res.indices = <<>>)
     => res.instance = Ok(TRUE) /\ res.static = Ok(TRUE)

\* the empty multiproof of a three-leaf tree has been processed to its root
C17_Witness ==
  /\ res.op = "processMultiProof"
  /\ res.indices = <<>>
  /\ Len(tree) = 5
  /\ res.multiproof = EmptyMultiProof(tree[1])
  /\ res.out = Ok(tree[1])

\* ----------------------------------------------------------------- C18
\* C18: a tree made from one leaf is that leaf alone, so its root is the
\* leaf's digest; getProof of the leaf returns the empty list and
\* processProof of it returns the leaf; getMultiProof([0]) returns
\* {leaves: [root], proof: [], proofFlags: []}, and processMultiProof of it
\* returns the leaf itself, no node hash applied.  The facade agrees: the
\* root of a one-value tree is the leaf hash of the value and the proof of
\* value 0 is empty.
C18_OneLeafTree ==
  /\ (res.op = "makeMerkleTree" /\ Len(res.leaves) = 1 /\ res.leaves[1].len = 32)
     => res.out = Ok(<<res.leaves[1]>>)
  /\ (res.op = "getProof" /\ Len(tree) = 1 /\ res.index = 0)
     => res.out = Ok(<<>>)
  /\ (res.op = "processProof" /\ Len(tree) = 1)
     => res.out = Ok(tree[1])
  /\ (res.op = "getMultiProof" /\ Len(tree) = 1 /\ res.indices = <<0>>)
     => res.out = Ok([leaves |-> <<tree[1]>>, proof |-> <<>>, proofFlags |-> <<>>])
  /\ (res.op = "processMultiProof" /\ Len(tree) = 1 /\ res.indices = <<0>>)
     => res.out = Ok(tree[1])
  /\ (res.op = "of" /\ Len(res.args.values) = 1 /\ res.out.ok)
     => T.tree = <<leafHashOf(T.kind, res.args.values[1])>>
  /\ (res.op = "T.getProof" /\ Len(T.values) = 1 /\ res.index = 0)
     => res.out = Ok(<<>>)
  /\ (res.op = "T.getMultiProof" /\ Len(T.values) = 1 /\ res.indices = <<0>>)
     => res.out = Ok([leaves |-> <<T.values[1].value>>, proof |-> <<>>, proofFlags |-> <<>>])

\* the multiproof of the only leaf of a one-leaf tree has been processed
\* to that leaf
C18_Witness ==
  /\ res.op = "processMultiProof"
  /\ Len(tree) = 1
  /\ res.indices = <<0>>
  /\ res.multiproof = [leaves |-> <<tree[1]>>, proof |-> <<>>, proofFlags |-> <<>>]
  /\ res.out = Ok(tree[1])

SimpleLoadCalled == res.op = "load" /\ res.loader.class = "simple"

\* the dump is tagged 'custom' and a node hash is given, or the dump has no
\* tag and no node hash is given
TagMatches ==
  \/ res.data.hash = "custom" /\ res.loader.nodeHash = "custom"
  \/ res.data.hash = "absent" /\ res.loader.nodeHash = "none"

PositionAfterSort(kind, values, k) ==
  Cardinality({j \in 0..(Len(values) - 1) :
     \/ compareBytes(leafHashOf(kind, values[j + 1]), leafHashOf(kind, values[k + 1])) < 0
     \/ /\ leafHashOf(kind, values[j + 1]) = leafHashOf(kind, values[k + 1])
        /\ j < k})

\* C21: of(values) keeps the values table in input order.  With sortLeaves
\* the leaf digests lie in ascending order from index size-1 downwards and
\* the treeIndex of a value is size-1-(its position after sorting); without
\* it the treeIndex of the k-th value is size-1-k.  In both cases
\* tree[treeIndex] is the leaf hash of the value and different value
\* positions have different treeIndex.
C21_FacadeConstruction ==
  (res.op = "of" /\ res.out.ok) =>
    LET a == res.args
        L == Len(a.values)
        size == Len(T.tree)
    IN /\ T = res.out.val
       /\ size = 2 * L - 1
       /\ Len(T.values) = L
       /\ \A k \in 0..(L - 1) :
            /\ T.values[k + 1].value = a.values[k + 1]
            /\ T.values[k + 1].treeIndex =
                 size - 1 - (IF a.sortLeaves THEN PositionAfterSort(a.kind, a.values, k) ELSE k)
            /\ T.tree[T.values[k + 1].treeIndex + 1] = leafHashOf(a.kind, a.values[k + 1])
       /\ \A j, k \in 0..(L - 1) :
            j # k => T.values[j + 1].treeIndex # T.values[k + 1].treeIndex
       /\ a.sortLeaves =>
            \A k \in 0..(L - 2) :
              compareBytes(T.tree[(size - 1 - k) + 1], T.tree[(size - 1 - (k + 1)) + 1]) <= 0

\* three values given in descending order of leaf hash were built into a
\* sorted tree: the first value is at the lowest leaf index
C21_Witness ==
  /\ res.op = "of"
  /\ res.out.ok
  /\ res.args.sortLeaves
  /\ Len(res.args.values) = 3
  /\ compareBytes(leafHashOf(T.kind, res.args.values[2]), leafHashOf(T.kind, res.args.values[1])) < 0
  /\ T.values[1].treeIndex < T.values[2].treeIndex
  /\ T.values[1].value = res.args.values[1]

\* ----------------------------------------------------------------- C22
\* C22: whatever the tree object, validated or not, a proof that getProof
\* returns passes T.verify and a multiproof that getMultiProof returns
\* passes T.verifyMultiProof.
C22_ReturnedProofsVerify ==
  /\ res.op = "T.verify" => res.instance = Ok(TRUE)
  /\ res.op = "T.verifyMultiProof" => res.instance = Ok(TRUE)

\* ----------------------------------------------------------------- C23
\* an index list of distinct value indices of T
DistinctValueIndices(indices) ==
  /\ IsDistinct(indices)
  /\ \A k \in 1..Len(indices) : indices[k] \in 0..(Len(T.values) - 1)

\* C23 as stated: on a simple tree built with any node hash of the caller's
\* getProof(i) succeeds for every value index i, T.verify and the static
\* verify of the proof are true, and the same holds of getMultiProof and
\* verifyMultiProof for every list of distinct indices.
C23_CustomHashRoundTrip ==
  /\ (res.op = "T.getProof" /\ res.index \in 0..(Len(T.values) - 1)) => res.out.ok
  /\ res.op = "T.verify" => res.instance = Ok(TRUE) /\ res.static = Ok(TRUE)
  /\ (res.op = "T.getMultiProof" /\ DistinctValueIndices(res.indices)) => res.out.ok
  /\ (res.op = "T.verifyMultiProof" /\ DistinctValueIndices(res.indices))
     => res.instance = Ok(TRUE) /\ res.static = Ok(TRUE)

\* the node hash gives the same digest for a pair of nodes of T in either order
CommutativeOn(obj) ==
  \A i, j \in 1..Len(obj.tree) :
    NodeHash(obj.nodeHash, obj.tree[i], obj.tree[j]) = NodeHash(obj.nodeHash, obj.tree[j], obj.tree[i])

\* C23 amended: the round trip holds on a simple tree built with a node
\* hash of the caller's that does not depend on the order of its operands.
C23_CommutativeHashRoundTrip ==
  (T.kind = "simple" /\ CommutativeOn(T)) => C23_CustomHashRoundTrip

\* the proof of a leaf two levels down in a tree built with the caller's
\* sorting node hash has been verified
C23_Witness ==
  /\ res.op = "T.verify"
  /\ T.nodeHash = "custom"
  /\ Len(T.values) = 3
  /\ Len(res.proof) = 2
  /\ T.tree[1] = reverseNodeHash(T.tree[2], T.tree[3])
  /\ CommutativeOn(T)
  /\ res.instance = Ok(TRUE)
  /\ res.static = Ok(TRUE)

\* ----------------------------------------------------------------- C24
\* C24: once of has built T, and once load has built U, the object (its
\* node array, its value table and with them its root) is the same after
\* every step, be it a call of a public operation or an assignment of the
\* caller to an array given to load or returned by dump.
C24_TreeNeverChanges ==
  [][/\ T.kind # "none" => T' = T
     /\ U.kind # "none" => U' = U]_vars

\* ----------------------------------------------------------------- C25
\* the proof folded with the running digest as first operand of every step
RECURSIVE FoldAccFirst(_, _, _)
FoldAccFirst(acc, proof, k) ==
  IF k > Len(proof) THEN acc
  ELSE FoldAccFirst(hashPair(acc, proof[k]), proof, k + 1)

\* C25: hashPair and standardNodeHash give the same digest for (a, b) and
\* for (b, a), and the root processProof computes, hashing (sibling, acc)
\* at every step, is the root obtained by hashing (acc, sibling) at every
\* step.
C25_OrderInvariance ==
  /\ res.op = "hashPair" =>
       /\ res.ab = res.ba
       /\ res.standardAB = res.standardBA
       /\ res.ab = res.standardAB
  /\ res.op = "processGivenProof" =>
       res.out = Ok(FoldAccFirst(res.leaf, res.proof, 1))

\* a proof of two siblings, the first greater and the second smaller than
\* the digest it is hashed with, has been processed
C25_Witness ==
  /\ res.op = "processGivenProof"
  /\ Len(res.proof) = 2
  /\ compareBytes(res.proof[1], res.leaf) > 0
  /\ compareBytes(res.proof[2], hashPair(res.proof[1], res.leaf)) < 0
  /\ res.out = Ok(hashPair(hashPair(res.leaf, res.proof[1]), res.proof[2]))

\* ----------------------------------------------------------------- C26
\* the request is a list of distinct leaf indices of the tree
DistinctLeafIndices(indices) ==
  /\ IsDistinct(indices)
  /\ \A k \in 1..Len(indices) : IsLeafPosition(tree, indices[k])

\* C26: at every iteration of the loop of getMultiProof, entered with
\* distinct leaf indices, the queue is in strictly descending order; so,
\* while the loop goes on, the sibling of the head is the next element of
\* the queue if it is in the queue at all.
C26_QueueStrictlyDescending ==
  (pc = "looping" /\ DistinctLeafIndices(res.indices)) =>
    LET stack == res.st.stack
    IN /\ \A k \in 1..(Len(stack) - 1) : stack[k] > stack[k + 1]
       /\ (Len(stack) > 0 /\ stack[1] > 0) =>
            LET s == IF stack[1] % 2 = 1 THEN stack[1] + 1 ELSE stack[1] - 1
            IN (\E k \in 1..Len(stack) : stack[k] = s) => (Len(stack) > 1 /\ stack[2] = s)

\* in the loop for the three leaves of a three-leaf tree, after one
\* iteration: the parent 1 was pushed behind the leaf 2
C26_Witness ==
  /\ pc = "looping"
  /\ Len(tree) = 5
  /\ res.indices = <<2, 3, 4>>
  /\ res.st.stack = <<2, 1>>
  /\ res.st.proofFlags = <<TRUE>>

\* ----------------------------------------------------------------- C27
CountTrue(flags) == Cardinality({k \in 1..Len(flags) : flags[k]})

\* C27: entered with a non-empty list of distinct leaf indices, the loop of
\* getMultiProof comes to its end; it ends with the queue holding the root
\* index 0 and nothing else, and the result has as many false flags as
\* proof entries and |leaves| - 1 true flags.
C27_MultiProofTerminates ==
  /\ [](((pc = "looping" /\ DistinctLeafIndices(res.indices))
          => <>(pc = "done" /\ res.op = "getMultiProof")))
  /\ []((/\ res.op = "getMultiProof"
         /\ Len(res.indices) > 0
         /\ DistinctLeafIndices(res.indices))
        => /\ res.out.ok
           /\ res.stack = <<0>>
           /\ res.out = getMultiProof(tree, res.indices)
           /\ CountFalse(res.out.val.proofFlags) = Len(res.out.val.proof)
           /\ CountTrue(res.out.val.proofFlags) = Len(res.out.val.leaves) - 1)

\* the loop for two leaves of a three-leaf tree that are not siblings has
\* ended after two iterations, the second pairing two queued nodes
C27_Witness ==
  /\ pc = "done"
  /\ res.op = "getMultiProof"
  /\ Len(tree) = 5
  /\ res.indices = <<2, 4>>
  /\ res.stack = <<0>>
  /\ res.out.ok
  /\ res.out.val.proofFlags = <<FALSE, TRUE>>
  /\ Len(res.out.val.proof) = 1

\* ----------------------------------------------------------------- C28
\* C28: in the loop of processMultiProof, entered past the two shape
\* checks, after i flags the leaves queue and the proof queue hold
\* |proofFlags| + 1 - i digests between them; when the flags are used up
\* one digest is left and it is the result; it comes from the proof queue
\* when leaves and proofFlags are both empty and from the leaves queue
\* otherwise.
C28_DigestCount ==
  /\ pc = "folding" =>
       Len(res.stack) + Len(res.proof) = Len(res.multiproof.proofFlags) + 1 - res.i
  /\ res.op = "processMultiProof.return" =>
       /\ Len(res.stack) + Len(res.proof) = 1
       /\ res.out = processMultiProof(res.multiproof, "none")
       /\ IF Len(res.multiproof.leaves) = 0 /\ Len(res.multiproof.proofFlags) = 0
          THEN res.stack = <<>> /\ res.out = Ok(res.proof[1])
          ELSE res.proof = <<>> /\ res.out = Ok(res.stack[1])

\* a multiproof of two leaves and two proof entries has been folded with
\* three flags, and the digest left in the leaves queue returned
C28_Witness ==
  /\ res.op = "processMultiProof.return"
  /\ Len(res.multiproof.leaves) = 2
  /\ Len(res.multiproof.proof) = 2
  /\ res.multiproof.proofFlags = <<FALSE, TRUE, FALSE>>
  /\ Len(res.stack) = 1
  /\ res.proof = <<>>
  /\ res.out = Ok(res.stack[1])

\* ----------------------------------------------------------------- C29
\* C29 as stated: in a tree that load returned every stored treeIndex is a
\* leaf index of the node array (2 * treeIndex + 1 >= size), and getProof
\* succeeds for every value index.
C29_LoadedTreesProvable ==
  /\ (res.op = "load" /\ res.out.ok) =>
       \A k \in 1..Len(U.values) :
         /\ U.values[k].treeIndex >= 0
         /\ U.values[k].treeIndex < Len(U.tree)
         /\ 2 * U.values[k].treeIndex + 1 >= Len(U.tree)
  /\ (res.op = "U.getProof" /\ res.index \in 0..(Len(U.values) - 1)) => res.out.ok

\* value k of U is stored at a node with two children and is their node hash
NamesInternalNode(k) ==
  LET i == U.values[k].treeIndex
  IN /\ i >= 0
     /\ 2 * i + 2 < Len(U.tree)
     /\ U.kind = "simple"
     /\ [len |-> U.values[k].value.len, id |-> U.values[k].value.id] =
          NodeHash(U.nodeHash, U.tree[(2 * i + 1) + 1], U.tree[(2 * i + 2) + 1])

\* C29 amended: in a tree that load returned every stored treeIndex is in
\* the node array, and is a leaf index unless the tree is a simple tree and
\* the value is the node hash of the two children of that node; getProof
\* succeeds for every value index stored at a leaf index and fails with
\* 'Index is not a leaf' for the others.  In a standard tree all are leaf
\* indices.
C29_LoadedTreesProvableAtLeaves ==
  /\ (res.op = "load" /\ res.out.ok) =>
       \A k \in 1..Len(U.values) :
         /\ U.values[k].treeIndex >= 0
         /\ U.values[k].treeIndex < Len(U.tree)
         /\ 2 * U.values[k].treeIndex + 1 >= Len(U.tree) \/ NamesInternalNode(k)
  /\ (res.op = "U.getProof" /\ res.index \in 0..(Len(U.values) - 1)) =>
       IF 2 * U.values[res.index + 1].treeIndex + 1 >= Len(U.tree)
       THEN res.out.ok
       ELSE Fails(res.out, "Error", "Index is not a leaf")

\* a dump whose value table was rewritten to name the other leaf was
\* accepted by load, and the proof of the rewritten entry obtained
C29_Witness ==
  /\ res.op = "U.getProof"
  /\ res.data # dump(T)
  /\ Len(U.tree) = 3
  /\ res.index \in 0..(Len(U.values) - 1)
  /\ U.values[res.index + 1].treeIndex # T.values[res.index + 1].treeIndex
  /\ res.out.ok
  /\ Len(res.out.val) = 1

\* ----------------------------------------------------------------- C30
\* C30: when getMultiProof(tree, indices) has returned or thrown, the
\* caller's indices list holds the same elements in the same order as before
\* the call and the tree array is as it was; when processMultiProof has
\* returned or thrown, the leaves, proof and proofFlags of its argument are
\* as they were.
C30_ArgumentsUnchanged ==
  /\ res.op = "getMultiProof" =>
       /\ res.argument = res.indices
       /\ tree = res.treeAtCall
  /\ res.op \in {"processMultiProof", "processMultiProof.return"} =>
       res.argument = res.multiproof

====
